---- MODULE Spec2Model ----
(***************************************************************************)
(* Zoomy (src/zoomy/zoomy.cpp): the pan-and-zoom viewer.  The model covers *)
(* PutScreenOverCoordinates (the aspect fit) and the body of the main loop *)
(* of WinMain: the space-bar zoom block and the Q/W/E/R corner edit block. *)
(*                                                                         *)
(* The program's float values are modelled as exact rationals <<n, d>>     *)
(* with d > 0 and gcd(n, d) = 1.  A division by a zero float is modelled   *)
(* by its IEEE-754 result (+Inf, -Inf, NaN) where the code performs one.   *)
(***************************************************************************)
EXTENDS Integers, FiniteSets, Sequences, TLC

(***************************************************************************)
(* Exact arithmetic on the float values.                                   *)
(***************************************************************************)
Abs(n) == IF n < 0 THEN -n ELSE n

RECURSIVE GCD(_, _)
GCD(a, b) == IF b = 0 THEN a ELSE GCD(b, a % b)

\* the rational n/d (d # 0) in lowest terms with a positive denominator
Norm(n, d) ==
  IF d = 1 THEN <<n, 1>>
  ELSE LET g == GCD(Abs(n), Abs(d))
           s == IF d < 0 THEN -1 ELSE 1
       IN  <<(s * n) \div g, Abs(d) \div g>>

R(n) == <<n, 1>>

RAdd(a, b) ==
  IF a[2] = b[2] THEN Norm(a[1] + b[1], a[2])
  ELSE LET g == GCD(a[2], b[2])
       IN  Norm(a[1] * (b[2] \div g) + b[1] * (a[2] \div g), (a[2] \div g) * b[2])

RNeg(a) == <<-a[1], a[2]>>

RSub(a, b) == RAdd(a, RNeg(b))

\* a and b in lowest terms: the product reduced crosswise is in lowest terms
RMul(a, b) ==
  IF a[2] = 1 /\ b[2] = 1 THEN <<a[1] * b[1], 1>>
  ELSE LET g1 == GCD(Abs(a[1]), b[2])
           g2 == GCD(Abs(b[1]), a[2])
       IN  <<(a[1] \div g1) * (b[1] \div g2), (a[2] \div g2) * (b[2] \div g1)>>

\* a / b for b # 0
RDiv(a, b) == RMul(a, IF b[1] < 0 THEN <<-b[2], -b[1]>> ELSE <<b[2], b[1]>>)

RLt(a, b) == RSub(a, b)[1] < 0

RLe(a, b) == RSub(a, b)[1] <= 0

\* the comparison  n / d > x  of floats, where n / d is +Inf, -Inf or NaN
\* when d is zero
QuotGt(n, d, x) == IF d[1] = 0 THEN n[1] > 0 ELSE RLt(x, RDiv(n, d))

\* the comparison  n / d < x  of floats
QuotLt(n, d, x) == IF d[1] = 0 THEN n[1] < 0 ELSE RLt(RDiv(n, d), x)

(***************************************************************************)
(* float PutScreenOverCoordinates(bool coords_in_dimensions, float *top,   *)
(*   float *left, float *bottom, float *right, float screen_width,         *)
(*   float screen_height): the in/out rectangle and the returned scaling.  *)
(***************************************************************************)
MoreHorizontal(coords_in_dimensions, width, height, screen_aspect) ==
  \/ coords_in_dimensions /\ QuotGt(width, height, screen_aspect)
  \/ ~coords_in_dimensions /\ QuotLt(width, height, screen_aspect)

\* PutScreenOverCoordinates with the far edge set from the near edge as it
\* was given, not as moved (the commented-out lines, a statement too early)
PutScreenOverCoordinates_FarEdge(coords_in_dimensions, top, left, bottom, right, screen_width, screen_height) ==
  LET screen_aspect == RDiv(screen_width, screen_height)
      width  == RSub(right, left)
      height == RSub(bottom, top)
  IN  IF MoreHorizontal(coords_in_dimensions, width, height, screen_aspect)
      THEN LET offset == RMul(RSub(RDiv(width, screen_aspect), height), <<1, 2>>)
           IN  [top |-> RSub(top, offset), left |-> left,
                bottom |-> RAdd(top, RDiv(width, screen_aspect)), right |-> right,
                scaling |-> RDiv(width, screen_width)]
      ELSE LET offset == RMul(RSub(RMul(height, screen_aspect), width), <<1, 2>>)
           IN  [top |-> top, left |-> RSub(left, offset),
                bottom |-> bottom, right |-> RAdd(left, RMul(height, screen_aspect)),
                scaling |-> RDiv(height, screen_height)]

\* PutScreenOverCoordinates with the scaling of the second branch taken
\* over the screen's width
PutScreenOverCoordinates_WrongScale(coords_in_dimensions, top, left, bottom, right, screen_width, screen_height) ==
  LET screen_aspect == RDiv(screen_width, screen_height)
      width  == RSub(right, left)
      height == RSub(bottom, top)
  IN  IF MoreHorizontal(coords_in_dimensions, width, height, screen_aspect)
      THEN LET offset == RMul(RSub(RDiv(width, screen_aspect), height), <<1, 2>>)
           IN  [top |-> RSub(top, offset), left |-> left,
                bottom |-> RAdd(bottom, offset), right |-> right,
                scaling |-> RDiv(width, screen_width)]
      ELSE LET offset == RMul(RSub(RMul(height, screen_aspect), width), <<1, 2>>)
           IN  [top |-> top, left |-> RSub(left, offset),
                bottom |-> bottom, right |-> RAdd(right, offset),
                scaling |-> RDiv(height, screen_width)]

\* PutScreenOverCoordinates with the whole difference, not half of it, taken
\* off and added on each side
PutScreenOverCoordinates_WholeOffset(coords_in_dimensions, top, left, bottom, right, screen_width, screen_height) ==
  LET screen_aspect == RDiv(screen_width, screen_height)
      width  == RSub(right, left)
      height == RSub(bottom, top)
  IN  IF MoreHorizontal(coords_in_dimensions, width, height, screen_aspect)
      THEN LET offset == RSub(RDiv(width, screen_aspect), height)
           IN  [top |-> RSub(top, offset), left |-> left,
                bottom |-> RAdd(bottom, offset), right |-> right,
                scaling |-> RDiv(width, screen_width)]
      ELSE LET offset == RSub(RMul(height, screen_aspect), width)
           IN  [top |-> top, left |-> RSub(left, offset),
                bottom |-> bottom, right |-> RAdd(right, offset),
                scaling |-> RDiv(height, screen_height)]

PutScreenOverCoordinates(coords_in_dimensions, top, left, bottom, right, screen_width, screen_height) ==
  LET screen_aspect == RDiv(screen_width, screen_height)
      width  == RSub(right, left)
      height == RSub(bottom, top)
  IN  IF MoreHorizontal(coords_in_dimensions, width, height, screen_aspect)
      THEN LET offset == RMul(RSub(RDiv(width, screen_aspect), height), <<1, 2>>)
           IN  [top |-> RSub(top, offset), left |-> left,
                bottom |-> RAdd(bottom, offset), right |-> right,
                scaling |-> RDiv(width, screen_width)]
      ELSE LET offset == RMul(RSub(RMul(height, screen_aspect), width), <<1, 2>>)
           IN  [top |-> top, left |-> RSub(left, offset),
                bottom |-> bottom, right |-> RAdd(right, offset),
                scaling |-> RDiv(height, screen_height)]

(***************************************************************************)
(* Bounds of the model.                                                    *)
(***************************************************************************)
\* frames in which a corner is captured
MaxCaptures == 1
\* quarters of `time` a zoom run may accumulate in scaled seconds
MaxRunQuarters == 8
\* coordinates and viewport sizes of the rectangles given to the fit alone
MaxCoord == 3
MaxView == 3
\* consecutive applications of the fit to its own output
MaxFitCalls == 2
\* times the texture is loaded again after a lost device
MaxReloads == 1

(***************************************************************************)
(* The state of WinMain and of its main loop.                              *)
(***************************************************************************)
VARIABLES
  screen_width, screen_height,  \* d3ddm.Width, d3ddm.Height
  image_width, image_height,    \* imageInfo.Width, imageInfo.Height
  start,        \* [x1, y1, x2, y2]: start_x1, start_y1, start_x2, start_y2
  end,          \* [x1, y1, x2, y2]: end_x1, end_y1, end_x2, end_y2
  d,            \* [x1, x2, y1, y2]: dx1, dx2, dy1, dy2
  view,         \* [left, top, right, bottom]: the corners of the screen
  drawn,        \* the corners the last frame gave to DrawPrimitiveUP
  first_loop, initialized,
  last,         \* history: what the last frame sampled and which blocks it ran
  run_time,     \* history: scaled seconds advanced since the rates were set
  captures,     \* history: frames that captured a corner
  pc,           \* where WinMain is: "start", "loop" or "returned"
  pD3D, pd3dDevice, pTexture,   \* "NULL", "live" or "dangling" (released)
  acquired,     \* [d3d, device, texture]: objects the program was given
  released,     \* [d3d, device, texture]: Release calls the program made
  fit           \* a call of PutScreenOverCoordinates on its own

\* the Direct3D objects of WinMain
d3dvars == <<pc, pD3D, pd3dDevice, pTexture, acquired, released>>

\* the locals of the main loop
loopvars == <<screen_width, screen_height, image_width, image_height, start, end,
              d, view, drawn, first_loop, initialized, last, run_time, captures>>

vars == <<loopvars, d3dvars, fit>>

\* float time = 30.0f
time == 30

\* the display mode and the images of the sessions explored: a 1920x1080
\* screen with an image narrower than and an image wider than the screen
Sessions ==
  { [sw |-> 1920, sh |-> 1080, iw |-> 4000, ih |-> 3000],
    [sw |-> 1920, sh |-> 1080, iw |-> 4000, ih |-> 1000] }

\* GetCursorPos: the positions the pointer is sampled at
Pointers == { [x |-> 100, y |-> 100], [x |-> 960, y |-> 540] }

\* fElapsedTime as HandleMessagePump returns it, in seconds: with the speed
\* factors below a frame advances a run by 15, 30 or 60 scaled seconds
ElapsedTimes == {30}

\* the speed keys held in a frame
SpeedInputs == { {}, {"9"}, {"3", "9"} }

CornerKeys == {"Q", "W", "E", "R"}

\* the corner keys held in a frame: none, each one alone, and Q with W
CornerInputs == { {}, {"Q"}, {"W"}, {"E"}, {"R"}, {"Q", "W"} }

\* the factor of the else-if chain over the keys '1' .. '9', '0'
SpeedFactor(held) ==
  CASE "1" \in held -> <<3, 20>>
    [] "2" \in held -> <<1, 4>>
    [] "3" \in held -> <<1, 2>>
    [] "4" \in held -> <<3, 5>>
    [] "5" \in held -> <<4, 5>>
    [] "6" \in held -> <<6, 5>>
    [] "7" \in held -> <<3, 2>>
    [] "8" \in held -> <<9, 5>>
    [] "9" \in held -> <<2, 1>>
    [] "0" \in held -> <<5, 2>>
    [] OTHER -> <<1, 1>>

\* (end - start) / time on each of the four scalars
Rates(s, e) ==
  [x1 |-> RDiv(RSub(e.x1, s.x1), R(time)),
   x2 |-> RDiv(RSub(e.x2, s.x2), R(time)),
   y1 |-> RDiv(RSub(e.y1, s.y1), R(time)),
   y2 |-> RDiv(RSub(e.y2, s.y2), R(time))]

\* Normalized with screen_width and screen_height passed in each other's place
Normalized_Transposed(b, sw, sh) ==
  LET f == PutScreenOverCoordinates(FALSE, b.y1, b.x1, b.y2, b.x2, sh, sw)
  IN  [x1 |-> f.left, y1 |-> f.top, x2 |-> f.right, y2 |-> f.bottom]

\* PutScreenOverCoordinates(false, &y1, &x1, &y2, &x2, ...) on a stored box
Normalized(b, sw, sh) ==
  LET f == PutScreenOverCoordinates(FALSE, b.y1, b.x1, b.y2, b.x2, sw, sh)
  IN  [x1 |-> f.left, y1 |-> f.top, x2 |-> f.right, y2 |-> f.bottom]

\* Armed with the box fitted on a copy: the stored box is not written
Armed_OnCopies(arm, b, sw, sh) == b

\* the stored box after the zoom block: fitted in place when the block arms
Armed(arm, b, sw, sh) == IF arm THEN Normalized(b, sw, sh) ELSE b

\* left = start_x1; top = start_y1; right = start_x2; bottom = start_y2
ViewOf(b) == [left |-> b.x1, top |-> b.y1, right |-> b.x2, bottom |-> b.y2]

\* Advance with right moved by dx1 instead of dx2
Advance_WrongDelta(v, r, t) ==
  [left   |-> RAdd(v.left,   RMul(r.x1, t)),
   top    |-> RAdd(v.top,    RMul(r.y1, t)),
   right  |-> RAdd(v.right,  RMul(r.x1, t)),
   bottom |-> RAdd(v.bottom, RMul(r.y2, t))]

\* Advance with the bottom edge held where it is
Advance_BottomHeld(v, r, t) ==
  [left   |-> RAdd(v.left,   RMul(r.x1, t)),
   top    |-> RAdd(v.top,    RMul(r.y1, t)),
   right  |-> RAdd(v.right,  RMul(r.x2, t)),
   bottom |-> v.bottom]

\* left += dx1 * fElapsedTime; top += dy1 * fElapsedTime; ...
Advance(v, r, t) ==
  [left   |-> RAdd(v.left,   RMul(r.x1, t)),
   top    |-> RAdd(v.top,    RMul(r.y1, t)),
   right  |-> RAdd(v.right,  RMul(r.x2, t)),
   bottom |-> RAdd(v.bottom, RMul(r.y2, t))]

\* Zoomed with the advance outside the space-bar test
Zoomed_Always(space, v, r, t) == Advance(v, r, t)

\* the zoom block on the screen's corners: they move while space is held
Zoomed(space, v, r, t) == IF space THEN Advance(v, r, t) ELSE v

\* WholeImage with the fit called with coords_in_dimensions false
WholeImage_ModeFalse(iw, ih, sw, sh) == PutScreenOverCoordinates(FALSE, R(0), R(0), ih, iw, sw, sh)

\* top = 0, left = 0, right = image_width, bottom = image_height and
\* PutScreenOverCoordinates(true, ...) on them
WholeImage(iw, ih, sw, sh) ==
  PutScreenOverCoordinates(TRUE, R(0), R(0), ih, iw, sw, sh)

\* Picked without the origin of the fitted image
Picked_NoOrigin(pt, f) ==
  [x |-> RMul(R(pt.x), f.scaling), y |-> RMul(R(pt.y), f.scaling)]

\* pt.x * scaling + left, pt.y * scaling + top
Picked(pt, f) ==
  [x |-> RAdd(RMul(R(pt.x), f.scaling), f.left),
   y |-> RAdd(RMul(R(pt.y), f.scaling), f.top)]

\* Captured without the test of the button
Captured_NoButton(click, corners, k1, k2, p, b) ==
  [x1 |-> IF k1 \in corners THEN p.x ELSE b.x1,
   y1 |-> IF k1 \in corners THEN p.y ELSE b.y1,
   x2 |-> IF k2 \in corners THEN p.x ELSE b.x2,
   y2 |-> IF k2 \in corners THEN p.y ELSE b.y2]

\* if (GetKeyState(VK_LBUTTON) & 0x80) { if (k1) { x1, y1 = p } if (k2) { x2, y2 = p } }
\* on one stored box, k1 and k2 being its two corner keys
\* Captured with a check that refuses to put both corners on one point
Captured_Validated(click, corners, k1, k2, p, b) ==
  IF k1 \in corners /\ k2 \in corners THEN b
  ELSE [x1 |-> IF click /\ k1 \in corners THEN p.x ELSE b.x1,
        y1 |-> IF click /\ k1 \in corners THEN p.y ELSE b.y1,
        x2 |-> IF click /\ k2 \in corners THEN p.x ELSE b.x2,
        y2 |-> IF click /\ k2 \in corners THEN p.y ELSE b.y2]

Captured(click, corners, k1, k2, p, b) ==
  [x1 |-> IF click /\ k1 \in corners THEN p.x ELSE b.x1,
   y1 |-> IF click /\ k1 \in corners THEN p.y ELSE b.y1,
   x2 |-> IF click /\ k2 \in corners THEN p.x ELSE b.x2,
   y2 |-> IF click /\ k2 \in corners THEN p.y ELSE b.y2]

\* InitializedAfter with the flag cleared when space is not held
InitializedAfter_ClearOnRelease(space, edit, was) == IF edit THEN FALSE ELSE space

\* InitializedAfter with the edit block leaving the flag alone
InitializedAfter_KeptOnEdit(space, edit, was) == was \/ space

\* InitializedAfter with the zoom block never setting the flag
InitializedAfter_NeverSet(space, edit, was) == IF edit THEN FALSE ELSE was

\* initialized at the end of a frame: set by the zoom block, cleared by the
\* edit block
InitializedAfter(space, edit, was) == IF edit THEN FALSE ELSE (was \/ space)

\* ViewAfter with the edit block leaving the screen's corners alone
ViewAfter_NoReset(edit, f, v) == v

\* the screen's corners at the end of a frame: the edit block puts the whole
\* image on screen
ViewAfter(edit, f, v) ==
  IF edit
  THEN [left |-> f.left, top |-> f.top, right |-> f.right, bottom |-> f.bottom]
  ELSE v

\* Rendered with the draw call after the edit block
Rendered_AfterEdit(zoomed, final) == final

\* the vertices of the frame: left, top, right, bottom as the zoom block
\* left them, the draw call coming before the edit block
Rendered(zoomed, final) == zoomed

NoFit == [calls |-> 0]

\* no frame has been drawn yet
NotDrawn == <<>>

\* no pointer position read in a frame
NoPointer == [x |-> 0, y |-> 0]

\* WinMain up to the main loop (lines 261 to 279) for one session
LoopInit(s) ==
  /\ screen_width = R(s.sw) /\ screen_height = R(s.sh)
  /\ image_width = R(s.iw) /\ image_height = R(s.ih)
  /\ start = [x1 |-> R(0), y1 |-> R(0), x2 |-> image_width, y2 |-> image_height]
  /\ end = [x1 |-> R(0), y1 |-> R(0), x2 |-> screen_width, y2 |-> screen_height]
  /\ d = Rates(start, end)
  /\ view = ViewOf(start)
  /\ drawn = NotDrawn
  /\ first_loop = TRUE
  /\ initialized = FALSE
  /\ last = [space |-> FALSE, corners |-> {}, lbutton |-> FALSE, pt |-> NoPointer,
             edit |-> FALSE, arm |-> FALSE, div0 |-> FALSE, step |-> R(0),
             press |-> FALSE]
  /\ run_time = R(0)
  /\ captures = 0

\* no object of the three kinds
NoObjects == [d3d |-> 0, device |-> 0, texture |-> 0]

\* WinMain at the top of the main loop: the interface, the device and the
\* texture were created and nothing was released
Running ==
  /\ pc = "loop"
  /\ pD3D = "live" /\ pd3dDevice = "live" /\ pTexture = "live"
  /\ acquired = [d3d |-> 1, device |-> 1, texture |-> 1]
  /\ released = NoObjects

Init == (\E s \in Sessions : LoopInit(s)) /\ Running /\ fit = NoFit

(***************************************************************************)
(* One pass of the main loop whose BeginScene succeeds.  space, corners,   *)
(* lbutton and speed are the key states GetKeyState returns, pt is the     *)
(* pointer and elapsed the seconds since the last frame.  A pass whose     *)
(* BeginScene fails reads no key and leaves the state as it is.            *)
(*                                                                         *)
(* last records the frame: the keys held, lbutton as the edit block read   *)
(* it, the pointer where the button was down (pt), whether the edit block  *)
(* ran (edit), whether a fit of the frame divided by a zero height (div0), *)
(* the scaled seconds the zoom block advanced by (step), whether the zoom  *)
(* block set the rates (arm), and whether space was held after a frame     *)
(* without it (press).                                                     *)
(***************************************************************************)
Frame(space, corners, lbutton, pt, elapsed, speed) ==
  LET arm     == space /\ ~initialized
      \* fElapsedTime *= factor
      fElapsedTime == RMul(R(elapsed), SpeedFactor(speed))
      run2    == IF space THEN RAdd(IF arm THEN R(0) ELSE run_time, fElapsedTime)
                 ELSE run_time
      \* if (first_loop||sp1||sp2||ep1||ep2) { ... }
      edit    == first_loop \/ corners # {}
      click   == edit /\ lbutton
      capture == click /\ corners # {}
  IN  /\ space => RLe(RMul(run2, R(4)), R(MaxRunQuarters * time))
      /\ capture => captures < MaxCaptures
      \* each value of the frame is computed once
      \* if (!initialized) { ... }
      /\ \E start1 \in {Armed(arm, start, screen_width, screen_height)},
            end1 \in {Armed(arm, end, screen_width, screen_height)} :
         \E d1 \in {IF arm THEN Rates(start1, end1) ELSE d} :
         \* left += dx1 * fElapsedTime; ...
         \E view2 \in {Zoomed(space, IF arm THEN ViewOf(start1) ELSE view, d1, fElapsedTime)} :
         \E f \in {IF edit THEN WholeImage(image_width, image_height, screen_width, screen_height)
                   ELSE NoFit} :
         \E p \in {IF edit THEN Picked(pt, f) ELSE NoPointer} :
         \E view3 \in {ViewAfter(edit, f, view2)} :
           /\ start' = IF edit THEN Captured(click, corners, "Q", "W", p, start1) ELSE start1
           /\ end' = IF edit THEN Captured(click, corners, "E", "R", p, end1) ELSE end1
           /\ d' = d1
           /\ view' = view3
           /\ drawn' = Rendered(view2, view3)
           /\ first_loop' = FALSE
           /\ initialized' = InitializedAfter(space, edit, initialized)
           /\ last' = [space |-> space, corners |-> corners, lbutton |-> click,
                       pt |-> IF click THEN pt ELSE NoPointer,
                       edit |-> edit, arm |-> arm,
                       \* float aspect = width / height with height 0
                       div0 |-> arm /\ (start.y1 = start.y2 \/ end.y1 = end.y2),
                       step |-> IF space THEN fElapsedTime ELSE R(0),
                       press |-> space /\ ~last.space]
           /\ run_time' = IF edit THEN R(0) ELSE run2
           /\ captures' = IF capture THEN captures + 1 ELSE captures
           /\ UNCHANGED <<screen_width, screen_height, image_width, image_height, fit>>

\* the key states of one frame.  GetKeyState(VK_LBUTTON) and GetCursorPos
\* are called in the edit block only and the speed keys are read in the zoom
\* block only: an input the frame does not read is drawn from one value.
\* Present succeeds and the loop goes on: no Direct3D object changes.
Next ==
  \E space \in BOOLEAN, corners \in CornerInputs :
    \E lbutton \in IF first_loop \/ corners # {} THEN BOOLEAN ELSE {FALSE} :
      \E pt \in IF lbutton THEN Pointers ELSE {NoPointer} :
        \E elapsed \in ElapsedTimes, speed \in IF space THEN SpeedInputs ELSE {{}} :
          Frame(space, corners, lbutton, pt, elapsed, speed) /\ UNCHANGED d3dvars

Spec == Init /\ [][Next]_vars

(***************************************************************************)
(* WinMain from its first line to its return.  Startup is the code before  *)
(* the main loop, Pass a pass of the loop whose Present succeeds,          *)
(* LostDevice a pass whose Present fails, Exit a pass that leaves the loop *)
(* at its head; a step that leaves the loop runs the releases after it.    *)
(* Release is counted per kind of object; a pointer is not set to NULL     *)
(* when its object is released.                                            *)
(***************************************************************************)
\* if (pTexture) pTexture->Release(); if (pd3dDevice) pd3dDevice->Release();
\* if (pD3D) pD3D->Release(): the Release calls made, added to rel
Cleanup(rel, d3d, device, texture) ==
  [d3d     |-> rel.d3d + (IF d3d # "NULL" THEN 1 ELSE 0),
   device  |-> rel.device + (IF device # "NULL" THEN 1 ELSE 0),
   texture |-> rel.texture + (IF texture # "NULL" THEN 1 ELSE 0)]

\* how the code before the main loop can end
StartupOutcomes ==
  {"no_file", "no_window", "no_d3d", "no_device", "no_display_mode", "no_texture", "ok"}

WinMainInit ==
  /\ \E s \in Sessions : LoopInit(s)
  /\ pc = "start"
  /\ pD3D = "NULL" /\ pd3dDevice = "NULL" /\ pTexture = "NULL"
  /\ acquired = NoObjects /\ released = NoObjects
  /\ fit = NoFit

Startup(outcome) ==
  LET has_d3d     == outcome \in {"no_device", "no_display_mode", "no_texture", "ok"}
      has_device  == outcome \in {"no_display_mode", "no_texture", "ok"}
      has_texture == outcome = "ok"
      d3d     == IF has_d3d THEN "live" ELSE "NULL"
      device  == IF has_device THEN "live" ELSE "NULL"
      texture == IF has_texture THEN "live" ELSE "NULL"
  IN  /\ pc = "start"
      /\ pc' = IF outcome = "ok" THEN "loop" ELSE "returned"
      /\ pD3D' = d3d /\ pd3dDevice' = device /\ pTexture' = texture
      /\ acquired' = [d3d |-> IF has_d3d THEN 1 ELSE 0,
                      device |-> IF has_device THEN 1 ELSE 0,
                      texture |-> IF has_texture THEN 1 ELSE 0]
      \* return 0 and return NULL leave at once; the other failures fall
      \* through to the releases
      /\ released' = IF outcome \in {"no_window", "no_d3d", "no_device", "no_texture"}
                     THEN Cleanup(released, d3d, device, texture)
                     ELSE released
      /\ UNCHANGED <<loopvars, fit>>

\* the body of a pass: a frame with space and Q held or not, the button
\* down or not with the pointer at one place, at the unchanged speed
Body ==
  \E space \in BOOLEAN, corners \in {{}, {"Q"}} :
    \E lbutton \in IF first_loop \/ corners # {} THEN BOOLEAN ELSE {FALSE} :
      \E pt \in IF lbutton THEN {[x |-> 100, y |-> 100]} ELSE {NoPointer} :
        \E elapsed \in ElapsedTimes :
          Frame(space, corners, lbutton, pt, elapsed, {})

Pass == pc = "loop" /\ Body /\ UNCHANGED d3dvars

\* how a pass whose Present fails can end; the pointer a failed
\* D3DXCreateTextureFromFile leaves in pTexture is not specified
LostOutcomes == {"wait_failed", "reload_failed_null", "reload_failed_kept", "reloaded"}

LostDevice(outcome) ==
  /\ pc = "loop"
  /\ outcome = "reloaded" => acquired.texture <= MaxReloads
  /\ Body
  \* pTexture->Release()
  /\ LET rel1    == [released EXCEPT !.texture = @ + 1]
         texture == CASE outcome = "reloaded" -> "live"
                      [] outcome = "reload_failed_null" -> "NULL"
                      [] OTHER -> "dangling"
     IN  /\ pTexture' = texture
         /\ acquired' = IF outcome = "reloaded"
                        THEN [acquired EXCEPT !.texture = @ + 1] ELSE acquired
         /\ pc' = IF outcome = "reloaded" THEN "loop" ELSE "returned"
         \* break: the releases after the loop
         /\ released' = IF outcome = "reloaded" THEN rel1
                        ELSE Cleanup(rel1, pD3D, pd3dDevice, texture)
  /\ UNCHANGED <<pD3D, pd3dDevice>>

\* HandleMessagePump returns false on WM_QUIT, or ESC is down
Exit ==
  /\ pc = "loop"
  /\ pc' = "returned"
  /\ released' = Cleanup(released, pD3D, pd3dDevice, pTexture)
  /\ UNCHANGED <<loopvars, pD3D, pd3dDevice, pTexture, acquired, fit>>

WinMainNext ==
  \/ \E outcome \in StartupOutcomes : Startup(outcome)
  \/ Pass
  \/ \E outcome \in LostOutcomes : LostDevice(outcome)
  \/ Exit

WinMainSpec == WinMainInit /\ [][WinMainNext]_vars

(***************************************************************************)
(* PutScreenOverCoordinates on its own: a rectangle with small integer     *)
(* corners on a small viewport, or the whole image of a session on its     *)
(* screen, and either mode; each call after the first is given the         *)
(* rectangle the call before it returned.                                  *)
(***************************************************************************)
FitInputs ==
  { [calls |-> 0, coords_in_dimensions |-> m,
     screen_width |-> R(w), screen_height |-> R(h),
     top |-> R(t), left |-> R(l), bottom |-> R(b), right |-> R(r)] :
    m \in BOOLEAN, w \in 1..MaxView, h \in 1..MaxView,
    t \in 0..MaxCoord, l \in 0..MaxCoord, b \in 0..MaxCoord, r \in 0..MaxCoord }
  \cup
  \* the whole image of each session on its screen
  { [calls |-> 0, coords_in_dimensions |-> m,
     screen_width |-> R(s.sw), screen_height |-> R(s.sh),
     top |-> R(0), left |-> R(0), bottom |-> R(s.ih), right |-> R(s.iw)] :
    m \in BOOLEAN, s \in Sessions }

FitInit == LoopInit(CHOOSE s \in Sessions : s.ih = 3000) /\ Running /\ fit \in FitInputs

FitCall ==
  /\ fit.calls < MaxFitCalls
  /\ LET in == IF fit.calls = 0 THEN fit ELSE fit.out
     IN  fit' = [calls |-> fit.calls + 1,
                 coords_in_dimensions |-> fit.coords_in_dimensions,
                 screen_width |-> fit.screen_width,
                 screen_height |-> fit.screen_height,
                 top |-> in.top, left |-> in.left,
                 bottom |-> in.bottom, right |-> in.right,
                 out |-> PutScreenOverCoordinates(fit.coords_in_dimensions,
                           in.top, in.left, in.bottom, in.right,
                           fit.screen_width, fit.screen_height)]
  /\ UNCHANGED <<loopvars, d3dvars>>

FitNext == FitCall

FitSpec == FitInit /\ [][FitNext]_vars


(***************************************************************************)
(* The properties checked.  In an action formula the unprimed variables    *)
(* are the state at the beginning of a frame and the primed ones the state *)
(* at its end; last' tells what the frame sampled and did, last what the   *)
(* frame before it did.                                                    *)
(***************************************************************************)
\* the fit of the zoom block on a stored box, for this session's screen
Fitted(b) == Normalized(b, screen_width, screen_height)

\* the scaled seconds the frame advanced by, in a frame whose edit block
\* does not run
Step == IF last'.arm THEN run_time' ELSE RSub(run_time', run_time)

\* C1 as stated: when space is held in a frame after a frame without it,
\* initialized is false at the beginning of the frame, so that the frame
\* sets the rates and restarts from the start box.
C1_ReplayFromStart == last.press => last.arm

\* C1 amended: a frame without space and without a corner key leaves
\* initialized, the rates and the screen's corners as they are; a frame in
\* which space is held again and which finds initialized true keeps the
\* rates and the boxes and moves the corners on from where they stopped;
\* one which finds initialized false sets the rates from the fitted boxes
\* and moves the corners from the fitted start box.
C1_ResumeWherePaused ==
  [][ /\ (~last'.space /\ ~last'.edit) =>
           initialized' = initialized /\ d' = d /\ view' = view
      /\ (last'.press /\ initialized) =>
           /\ d' = d
           /\ ~last'.edit => /\ start' = start /\ end' = end
                             /\ view' = Advance(view, d, Step)
      /\ (last'.press /\ ~initialized) =>
           /\ d' = Rates(Fitted(start), Fitted(end))
           /\ ~last'.edit => view' = Advance(ViewOf(Fitted(start)), d', Step)
    ]_vars

\* a hold resumed with the rates of the hold before it
C1_Witness == last.press /\ ~last.arm /\ ~last.edit /\ initialized

C3_RearmOnEdit ==
  /\ [](last.corners # {} => ~initialized)
  /\ [][ (last'.space /\ ~initialized) =>
           /\ d' = Rates(Fitted(start), Fitted(end))
           /\ ~last'.edit => view' = Advance(ViewOf(Fitted(start)), d', Step)
       ]_vars

\* the rates have been set after a corner was captured
C3_Witness == last.arm /\ ~last.edit /\ captures > 0 /\ initialized

\* the rectangle given to a call of the fit has positive extents
FitPositive == RLt(fit.left, fit.right) /\ RLt(fit.top, fit.bottom)

\* the rectangle given to a call of the fit has non-zero extents
FitNonZero == fit.left # fit.right /\ fit.top # fit.bottom

\* C4 as stated: with coords_in_dimensions true, the rectangle the fit
\* returns for a rectangle of positive extents lies within that rectangle.
C4_CoverStaysInside ==
  (fit.calls >= 1 /\ fit.coords_in_dimensions /\ FitPositive) =>
    /\ RLe(fit.left, fit.out.left) /\ RLe(fit.out.right, fit.right)
    /\ RLe(fit.top, fit.out.top) /\ RLe(fit.out.bottom, fit.bottom)

\* C5 as stated: in a frame in which space is held, the rates are set if
\* and only if it is the first frame of the hold.
C5_OncePerHold == last.space => (last.arm <=> last.press)

\* C5 amended: in a later frame of a hold the rates are set if and only if
\* the edit block ran in the frame before it (a corner key was held, or it
\* was the first frame of the session); otherwise the frame keeps the rates
\* and moves the corners on.  In the first frame of a hold they are set if
\* and only if initialized is false.
C5_SetWhenDisarmed ==
  [][ last'.space =>
        /\ last'.arm <=> (IF last'.press THEN ~initialized ELSE last.edit)
        /\ (~last'.press /\ ~last.edit) =>
             /\ d' = d
             /\ ~last'.edit => view' = Advance(view, d, Step)
    ]_vars

\* a later frame of a hold that kept the rates
C5_Witness == last.space /\ ~last.press /\ ~last.arm /\ initialized

\* C6 as stated: a frame in which space is held leaves the start and end
\* boxes as they are.
C6_BoxesFixedWhileHeld == [][ last'.space => (start' = start /\ end' = end) ]_vars

\* C6 amended: a frame changes the start and end boxes only if it sets the
\* rates (the boxes are fitted in place) or captures a corner (a corner key
\* held with the button down), whether space is held or not.
C6_BoxesChangedByArmOrCapture ==
  [][ (~last'.arm /\ ~(last'.lbutton /\ last'.corners # {})) =>
        (start' = start /\ end' = end) ]_vars

\* space and a corner key held without the button, the rates already set
C6_Witness == last.space /\ ~last.arm /\ last.corners # {} /\ ~last.lbutton

\* C7 as stated: a frame in which space is not held leaves the screen's
\* corners as the frame before it left them.
C7_PausedViewKept == [][ (~first_loop /\ ~last'.space) => view' = view ]_vars

\* C7 amended: a frame in which neither space nor a corner key is held, and
\* which is not the first frame of the session, leaves the screen's corners
\* as they are.
C7_PausedViewKeptUnlessEdit == [][ (~last'.space /\ ~last'.edit) => view' = view ]_vars

\* a run paused on its way
C7_Witness == ~last.space /\ ~last.edit /\ initialized /\ run_time # R(0)

\* the corners of a box after a frame: those whose key k1, k2 is held are
\* at pt.x * scaling + left, pt.y * scaling + top, the others as in b
CapturedAt(pt, f, k1, k2, b) ==
  LET x == RAdd(RMul(R(pt.x), f.scaling), f.left)
      y == RAdd(RMul(R(pt.y), f.scaling), f.top)
  IN  [x1 |-> IF k1 \in last'.corners THEN x ELSE b.x1,
       y1 |-> IF k1 \in last'.corners THEN y ELSE b.y1,
       x2 |-> IF k2 \in last'.corners THEN x ELSE b.x2,
       y2 |-> IF k2 \in last'.corners THEN y ELSE b.y2]

\* the effect of a frame on the boxes, s and e being the boxes the capture
\* starts from
CaptureEffect(s, e) ==
  LET f == PutScreenOverCoordinates(TRUE, R(0), R(0), image_height, image_width,
                                    screen_width, screen_height)
  IN  IF last'.lbutton
      THEN \E pt \in Pointers : /\ start' = CapturedAt(pt, f, "Q", "W", s)
                                /\ end' = CapturedAt(pt, f, "E", "R", e)
      ELSE start' = s /\ end' = e

\* C8 as stated: with the button down each corner whose key is held is set
\* to pointer * scale + (left, top) of the fit of the whole image with
\* coords_in_dimensions true, all from one pointer position, and a corner
\* whose key is not held is unchanged; without the button no corner changes.
C8_CornerCapture == [][ CaptureEffect(start, end) ]_vars

\* C8 amended: as stated, except that a corner that is not captured has the
\* value the zoom block of the frame left: the stored one, or in a frame
\* that sets the rates the one of the box fitted in place.
C8_CornerCaptureAfterZoom ==
  [][ CaptureEffect(IF last'.arm THEN Fitted(start) ELSE start,
                    IF last'.arm THEN Fitted(end) ELSE end) ]_vars

\* Q and W captured in one frame: both start corners at one picked point
C8_Witness ==
  /\ last.lbutton /\ last.corners = {"Q", "W"}
  /\ start.x1 = start.x2 /\ start.y1 = start.y2

\* C9: a call of the fit on a rectangle of non-zero extents leaves left +
\* right and top + bottom as they are and changes one axis only.
C9_FitSymmetry ==
  (fit.calls >= 1 /\ FitNonZero) =>
    /\ RAdd(fit.out.left, fit.out.right) = RAdd(fit.left, fit.right)
    /\ RAdd(fit.out.top, fit.out.bottom) = RAdd(fit.top, fit.bottom)
    /\ \/ fit.out.top = fit.top /\ fit.out.bottom = fit.bottom
       \/ fit.out.left = fit.left /\ fit.out.right = fit.right

\* a call that moved two edges of a rectangle of non-zero extents
C9_Witness ==
  /\ fit.calls >= 1 /\ FitNonZero
  /\ fit.out.top # fit.top \/ fit.out.left # fit.left

\* the rectangle given to a call of the fit has the viewport's aspect
FitMatches ==
  RMul(RSub(fit.right, fit.left), fit.screen_height)
    = RMul(RSub(fit.bottom, fit.top), fit.screen_width)

\* the call returned the rectangle it was given
FitUnchanged ==
  /\ fit.out.top = fit.top /\ fit.out.left = fit.left
  /\ fit.out.bottom = fit.bottom /\ fit.out.right = fit.right

\* C10: a call of the fit on a rectangle whose aspect is the viewport's
\* returns the rectangle unchanged and scale = width / viewportWidth =
\* height / viewportHeight; and a call on the rectangle the call before it
\* returned changes nothing.
C10_FitIdentityOnMatch ==
  /\ (fit.calls >= 1 /\ FitMatches) =>
       /\ FitUnchanged
       /\ fit.out.scaling = RDiv(RSub(fit.right, fit.left), fit.screen_width)
       /\ fit.out.scaling = RDiv(RSub(fit.bottom, fit.top), fit.screen_height)
  /\ fit.calls >= 2 => FitUnchanged

\* a second call, given the rectangle of non-zero extents that the first
\* call returned
C10_Witness == fit.calls = 2 /\ FitNonZero /\ FitMatches

\* the frame's edit block captured a corner
CapturedNow == last'.lbutton /\ last'.corners # {}

\* C11 as stated: the frame that sets the rates fits copies of the start
\* and end boxes, so the eight stored values are after that frame what they
\* were before it.
C11_ArmingOnCopies == [][ (last'.arm /\ ~CapturedNow) => (start' = start /\ end' = end) ]_vars

\* C11 amended: the frame that sets the rates writes the fitted boxes over
\* the stored ones (the fit is given the addresses of start_* and end_*),
\* so that after it the stored boxes are the fits of the boxes before it;
\* a corner captured in that frame or later is put into the fitted box.
C11_ArmingInPlace ==
  [][ /\ (last'.arm /\ ~CapturedNow) => (start' = Fitted(start) /\ end' = Fitted(end))
      /\ (last'.arm /\ CapturedNow) =>
           /\ start' = Captured(TRUE, last'.corners, "Q", "W", [x |-> start'.x1, y |-> start'.y1], Fitted(start))
              \/ start' = Captured(TRUE, last'.corners, "Q", "W", [x |-> start'.x2, y |-> start'.y2], Fitted(start))
           /\ end' = Captured(TRUE, last'.corners, "E", "R", [x |-> end'.x1, y |-> end'.y1], Fitted(end))
              \/ end' = Captured(TRUE, last'.corners, "E", "R", [x |-> end'.x2, y |-> end'.y2], Fitted(end)) ]_vars

\* the rates were set in a frame and the stored start box is no longer the
\* whole image it was before the frame; a corner was captured afterwards
C11_Witness ==
  /\ captures = 1 /\ last.lbutton /\ last.corners = {"E"} /\ ~last.arm
  /\ start = Fitted(start)
  /\ start # [x1 |-> R(0), y1 |-> R(0), x2 |-> image_width, y2 |-> image_height]

\* C12 as stated: with coords_in_dimensions false, the rectangle the fit
\* returns for a rectangle of positive extents contains that rectangle:
\* one axis is unchanged and the other has grown, or is unchanged too.
C12_ContainEnvelops ==
  (fit.calls >= 1 /\ ~fit.coords_in_dimensions /\ FitPositive) =>
    /\ RLe(fit.out.left, fit.left) /\ RLe(fit.right, fit.out.right)
    /\ RLe(fit.out.top, fit.top) /\ RLe(fit.bottom, fit.out.bottom)
    /\ \/ fit.out.left = fit.left /\ fit.out.right = fit.right
       \/ fit.out.top = fit.top /\ fit.out.bottom = fit.bottom

\* the frame of the scenario: the 4000x3000 image on the 1920x1080 screen,
\* Q held and the button down with the pointer at (100,100)
ScenarioFrame ==
  /\ image_width = R(4000) /\ image_height = R(3000)
  /\ screen_width = R(1920) /\ screen_height = R(1080)
  /\ last.lbutton /\ "Q" \in last.corners /\ last.pt = [x |-> 100, y |-> 100]

\* the scaling the edit block gets from the fit of the whole image
ScenarioScaling == WholeImage(image_width, image_height, screen_width, screen_height).scaling

ScreenAspect(v) ==
  RMul(RSub(v.right, v.left), screen_height) = RMul(RSub(v.bottom, v.top), screen_width)

\* C14: in every frame in which space is held (the frame that sets the
\* rates, the later frames of the hold, a hold after a release, a hold with
\* corner keys held) the rectangle given to the draw call has the screen's
\* aspect: (right - left) * screen_height = (bottom - top) * screen_width.
\* In exact arithmetic this holds of boxes with zero extents as well.
C14_AspectAtEveryStep == last.space => ScreenAspect(drawn)

\* a frame well into a run between two captured corners' boxes, and one
\* with a corner key held during the hold
C14_Witness ==
  /\ last.space /\ ~last.arm /\ captures = 1 /\ last.corners # {}
  /\ drawn # view /\ ScreenAspect(drawn)
  /\ drawn.left # drawn.right

\* C15: for a rectangle of non-zero extents, a positive screen size and
\* either value of coords_in_dimensions, the rectangle the fit returns has
\* the screen's aspect and the scaling returned is its width over the
\* screen's width and its height over the screen's height.
C15_FitMatchesScreen ==
  (fit.calls >= 1 /\ FitNonZero) =>
    /\ RMul(RSub(fit.out.right, fit.out.left), fit.screen_height)
         = RMul(RSub(fit.out.bottom, fit.out.top), fit.screen_width)
    /\ fit.out.scaling = RDiv(RSub(fit.out.right, fit.out.left), fit.screen_width)
    /\ fit.out.scaling = RDiv(RSub(fit.out.bottom, fit.out.top), fit.screen_height)

\* a call that changed a rectangle of negative width on a screen that is not
\* square, and one that changed the height
C15_Witness ==
  /\ fit.calls = 1 /\ FitNonZero /\ fit.screen_width # fit.screen_height
  /\ RLt(fit.right, fit.left) /\ fit.out.top # fit.top

\* the fit of the whole image with coords_in_dimensions true, as corners
WholeImageView ==
  LET f == WholeImage(image_width, image_height, screen_width, screen_height)
  IN  [left |-> f.left, top |-> f.top, right |-> f.right, bottom |-> f.bottom]

\* C16: at the end of the first frame and of every frame in which a corner
\* key is held, the screen's corners are the fit of the whole image
\* (0, 0, image_width, image_height) with coords_in_dimensions true and
\* initialized is false, whether or not space is held or the button is down:
\* what the zoom block did to the corners in that frame is overwritten.
C16_EditTakesOver ==
  [][ (first_loop \/ last'.corners # {}) => (view' = WholeImageView /\ ~initialized') ]_vars

\* a frame with a corner key held and the button down during a hold under
\* way: the corners the zoom block moved were drawn and then overwritten
C16_Witness ==
  /\ last.corners # {} /\ last.space /\ ~last.arm /\ last.lbutton
  /\ drawn # WholeImageView /\ view = WholeImageView /\ ~initialized

\* C17 as stated: in every frame that captures a corner the rectangle
\* given to the draw call of that frame is the fit of the whole image that
\* the frame converts the pointer with.
C17_DrawnIsPickedFrom == [][ CapturedNow => drawn' = WholeImageView ]_vars

\* C17 amended: the draw call of a frame comes before its edit block, so in
\* a frame that captures a corner the rectangle drawn is the one the zoom
\* block left: without space, the screen's corners of the end of the frame
\* before, which are the fit of the whole image when that frame ran the edit
\* block too; with space, those corners (the fitted start box in a frame
\* that sets the rates) advanced by the frame's step.
C17_DrawnBeforeEdit ==
  [][ CapturedNow =>
        /\ ~last'.space => drawn' = view
        /\ (~last'.space /\ last.edit) => drawn' = WholeImageView
        /\ last'.space =>
             drawn' = Advance(IF last'.arm THEN ViewOf(Fitted(start)) ELSE view, d', last'.step) ]_vars

\* a corner captured in the first frame a corner key is held after a run:
\* the frame drew the paused rectangle of the run and picked the corner
\* from the fit of the whole image
C17_Witness ==
  /\ last.lbutton /\ last.corners # {} /\ ~last.space
  /\ drawn # WholeImageView /\ view = WholeImageView /\ ScreenAspect(drawn)

\* a box whose two corners are one point
ZeroExtent(b) == b.x1 = b.x2 /\ b.y1 = b.y2

\* C18: a frame with Q and W held and the button down leaves the start box
\* with both corners on one point, zero wide and zero high; the box stays
\* so until a corner of it is captured again, and the next frame with space
\* held gives it to the fit, which divides its width by its zero height:
\* nothing checks or repairs the box on the way.
C18_DegenerateReachesFit ==
  [][ /\ (last'.lbutton /\ {"Q", "W"} \subseteq last'.corners) => ZeroExtent(start')
      /\ (ZeroExtent(start) /\ ~(last'.lbutton /\ last'.corners \cap {"Q", "W"} # {}))
           => ZeroExtent(start')
      /\ (last.lbutton /\ {"Q", "W"} \subseteq last.corners /\ last'.space)
           => (last'.arm /\ last'.div0) ]_vars

\* the frame after the capture with Q and W held space: the fit was given
\* the zero-extent start box
C18_Witness ==
  /\ last.arm /\ last.div0 /\ captures = 1 /\ ZeroExtent(start)
  /\ ~ZeroExtent(end) /\ last.corners = {}

\* the corners that are each t times its rate away from the corners v
Moved(v, r, t) ==
  [left   |-> RAdd(v.left,   RMul(t, r.x1)),
   top    |-> RAdd(v.top,    RMul(t, r.y1)),
   right  |-> RAdd(v.right,  RMul(t, r.x2)),
   bottom |-> RAdd(v.bottom, RMul(t, r.y2))]

\* C19: in every frame in which space is held the zoom block adds its rate
\* times the frame's scaled seconds to each of the four corners, whatever
\* the scaled seconds of the run add up to, and nothing stops the run at the
\* end box: while initialized is set the corners are the fitted start box
\* plus rate * run_time, for every run_time, beyond time = 30 as well.
C19_NoClamping ==
  [][ /\ last'.space =>
           drawn' = Moved(IF last'.arm THEN ViewOf(Fitted(start)) ELSE view, d', last'.step)
      /\ (last'.space /\ ~last'.edit) =>
           /\ view' = drawn' /\ initialized'
           /\ run_time' = RAdd(IF last'.arm THEN R(0) ELSE run_time, last'.step)
      /\ initialized' => view' = Moved(ViewOf(start'), d', run_time') ]_vars

\* a run carried on to twice the time of the zoom: the corners are past the
\* end box
C19_Witness ==
  /\ initialized /\ last.space /\ ~last.arm /\ run_time = R(2 * time)
  /\ view = Moved(ViewOf(end), d, R(time)) /\ view # ViewOf(end)

\* C20: when WinMain has returned, by whichever way, every object it was
\* given (texture, device, interface) has been released once; and at no
\* time has an object been released more often than it was given.
C20_ResourceBalance ==
  \A k \in {"d3d", "device", "texture"} :
    /\ released[k] <= acquired[k]
    /\ pc = "returned" => released[k] = acquired[k]

====
